---- MODULE Spec2Model ----
(***************************************************************************)
(* A model of db_check/ora_check/__main__.py: main parses the command      *)
(* line, validate_database loads the check document, opens one connection  *)
(* and one cursor, run_checks executes the checks one after the other, and *)
(* the report is printed or written to an HTML file.                       *)
(*                                                                         *)
(* Python strings that the program takes apart (queries, owner names, the  *)
(* host, the alias, file names) are sequences of one-character strings.    *)
(* Strings the program only copies (a check's name, description, warning)  *)
(* are atomic.  An optional value is None (the empty tuple) or Some(v).    *)
(***************************************************************************)
EXTENDS Integers, Sequences, FiniteSets

VARIABLES
    pc,           \* the statement the single thread is about to run
    args,         \* main: the parsed command line
    disk,         \* the check document on disk, as load_config will find it
    call,         \* the arguments main passed to validate_database, if it did
    config,       \* validate_database: the loaded document
    conn,         \* the connection: "none", "open" or "closed"
    cur,          \* the cursor: "none", "open" or "closed"
    connects,     \* how many times oracledb.connect returned a connection
    cursors,      \* how many times conn.cursor() returned a cursor
    checks,       \* run_checks: its parameter checks
    owner_exclude_list, \* run_checks: its parameter owner_exclude_list
    i,            \* run_checks: how many checks the for loop has finished
    formatted_query, \* run_checks: the local formatted_query
    pending,      \* the cursor's result set between execute and fetchall
    rows,         \* run_checks: the local rows
    results,      \* run_checks: the local results
    origin,       \* history: for each entry of results, the position of its check
    report,       \* validate_database: results, once run_checks has returned
    report_name,  \* validate_database: the local report_name
    log,          \* history: the calls made on the cursor, in order
    stdout,       \* what was printed
    file,         \* the report file written, if any
    error         \* the exception that ended the run, if any

vars == <<pc, args, disk, call, config, conn, cur, connects, cursors, checks,
          owner_exclude_list, i, formatted_query, pending, rows, results,
          origin, report, report_name, log, stdout, file, error>>

----------------------------------------------------------------------------
(* Optional values and Python truthiness *)

None == <<>>

Some(v) == <<v>>

\* Python's truth value of an optional string: None and '' are false
Truthy(opt) == opt # None /\ opt[1] # <<>>

----------------------------------------------------------------------------
(* Python's string operations, on sequences of characters *)

\* A character is a one-character string when it is ASCII, and the name of its
\* code point ("U+00E9" for e acute) when it is not.  str.isalpha and
\* str.isdigit go by the Unicode class of the character; of the characters
\* outside ASCII the model knows these:
\*   letters  U+00E9 e acute, U+00DF sharp s, U+00DC and U+00FC U diaeresis,
\*            U+00EF i diaeresis, U+00F1 n tilde, U+4E2D (CJK)
\*   digits   U+00B2, U+00B3, U+00B9 (superscripts two, three, one),
\*            U+0660 .. U+0669 (Arabic-Indic zero to nine)
\*   neither  U+00BD (one half), U+20AC (euro sign)
NonAsciiLetters == {"U+00E9", "U+00DF", "U+00DC", "U+00FC", "U+00EF", "U+00F1", "U+4E2D"}

NonAsciiDigits == {"U+00B2", "U+00B3", "U+00B9", "U+0660", "U+0661", "U+0662", "U+0663",
                   "U+0664", "U+0665", "U+0666", "U+0667", "U+0668", "U+0669"}

\* str.isalpha() of one character
isalpha(c) == c \in {"a", "b", "c", "d", "e", "f", "g", "h", "i", "j", "k", "l", "m",
                     "n", "o", "p", "q", "r", "s", "t", "u", "v", "w", "x", "y", "z",
                     "A", "B", "C", "D", "E", "F", "G", "H", "I", "J", "K", "L", "M",
                     "N", "O", "P", "Q", "R", "S", "T", "U", "V", "W", "X", "Y", "Z"}
                    \cup NonAsciiLetters

\* str.isdigit() of one character
isdigit(c) == c \in {"0", "1", "2", "3", "4", "5", "6", "7", "8", "9"} \cup NonAsciiDigits

\* How str.replace walks s: at each position, left to right, an occurrence of
\* old is replaced and skipped, any other character is copied.
RECURSIVE replace_all(_, _, _)
replace_all(s, old, new) ==
    IF Len(s) < Len(old) THEN s
    ELSE IF SubSeq(s, 1, Len(old)) = old
         THEN new \o replace_all(SubSeq(s, Len(old) + 1, Len(s)), old, new)
         ELSE <<s[1]>> \o replace_all(Tail(s), old, new)

\* A replace that stops after the first occurrence (str.replace(old, new, 1)).
RECURSIVE replace_first(_, _, _)
replace_first(s, old, new) ==
    IF Len(s) < Len(old) THEN s
    ELSE IF SubSeq(s, 1, Len(old)) = old
         THEN new \o SubSeq(s, Len(old) + 1, Len(s))
         ELSE <<s[1]>> \o replace_first(Tail(s), old, new)

\* s.replace(old, new), for a non-empty old
replace(s, old, new) == replace_all(s, old, new)

\* sep.join(items)
RECURSIVE join(_, _)
join(sep, items) ==
    IF items = <<>> THEN <<>>
    ELSE IF Len(items) = 1 THEN items[1]
    ELSE items[1] \o sep \o join(sep, Tail(items))

\* ''.join(c for c in s if c.isalpha())
RECURSIVE alpha_only(_)
alpha_only(s) ==
    IF s = <<>> THEN <<>>
    ELSE IF isalpha(s[1]) THEN <<s[1]>> \o alpha_only(Tail(s))
    ELSE alpha_only(Tail(s))

\* The placeholder of a query template, "{owner_exclude_list}"
TOKEN == <<"{", "o", "w", "n", "e", "r", "_", "e", "x", "c", "l", "u", "d", "e", "_", "l", "i", "s", "t", "}">>

\* A quoting that doubles the quotes inside the name
quoted_escaped(owner) == <<"'">> \o replace_all(owner, <<"'">>, <<"'", "'">>) \o <<"'">>

\* f"'{owner}'": the quotes go around the name as it is
quoted(owner) == <<"'">> \o owner \o <<"'">>

\* ", ".join([f"'{owner}'" for owner in owner_exclude_list])
exclude_sql(excl) == join(<<",", " ">>, [k \in 1..Len(excl) |-> quoted(excl[k])])

\* run_checks, line 41: the query sent for a check
format_query(query, excl) == replace(query, TOKEN, exclude_sql(excl))

\* all(c.isdigit() or c == '.' for c in db_host)
digits_and_dots(s) == \A k \in 1..Len(s) : isdigit(s[k]) \/ s[k] = "."

\* 'ip_' + db_host.replace('.', '_')
ip_token(db_host) == <<"i", "p", "_">> \o replace(db_host, <<".">>, <<"_">>)

\* The derivation without the address case (the line commented out at 250)
db_host_alpha_no_ip(tns, db_host) ==
    IF Truthy(tns) THEN alpha_only(tns[1]) ELSE alpha_only(db_host[1])

\* validate_database, lines 247-256: db_host_alpha
db_host_alpha(tns, db_host) ==
    IF Truthy(tns) THEN alpha_only(tns[1])
    ELSE IF digits_and_dots(db_host[1]) THEN ip_token(db_host[1])
    ELSE alpha_only(db_host[1])

\* One decimal digit as a character
digit(n) == <<"0", "1", "2", "3", "4", "5", "6", "7", "8", "9">>[n + 1]

\* A field of strftime: n in decimal, zero-padded to width w
RECURSIVE zero_padded(_, _)
zero_padded(n, w) ==
    IF w = 0 THEN <<>> ELSE zero_padded(n \div 10, w - 1) \o <<digit(n % 10)>>

\* now.strftime("%Y%m%d_%H%M%S")
strftime(now) ==
    zero_padded(now.year, 4) \o zero_padded(now.month, 2) \o zero_padded(now.day, 2)
    \o <<"_">> \o zero_padded(now.hour, 2) \o zero_padded(now.minute, 2)
    \o zero_padded(now.second, 2)

\* f"dms_comp_{db_host_alpha}_{timestamp}.html"
make_report_name(token, timestamp) ==
    <<"d", "m", "s", "_", "c", "o", "m", "p", "_">> \o token \o <<"_">> \o timestamp
    \o <<".", "h", "t", "m", "l">>

----------------------------------------------------------------------------
(* The report renderers *)

\* format_results: the lines printed for one result, then for the rest
RECURSIVE format_results(_)
format_results(res) ==
    IF res = <<>> THEN <<>>
    ELSE << <<"Check: ", res[1].name>>, <<"", res[1].description>>,
            <<"", res[1].warning>>, <<"Result:", "">> >>
         \o [k \in 1..Len(res[1].rows) |-> <<"  - ", res[1].rows[k]>>]
         \o << <<"\n", "">> >>
         \o format_results(Tail(res))

\* generate_html_report: the sections appended for the results
RECURSIVE html_sections(_)
html_sections(res) ==
    IF res = <<>> THEN <<>>
    ELSE << <<"h2", res[1].name>>, <<"p", res[1].description>> >>
         \o (IF res[1].warning # "" THEN << <<"warning", res[1].warning>> >> ELSE <<>>)
         \o << <<"table", "">>, <<"th", "Findings">> >>
         \o [k \in 1..Len(res[1].rows) |-> <<"td", join(<<",", " ">>, res[1].rows[k])>>]
         \o << <<"/table", "">> >>
         \o html_sections(Tail(res))

\* filename.endswith('.css')
endswith_css(filename) ==
    Len(filename) >= 4 /\ SubSeq(filename, Len(filename) - 3, Len(filename)) = <<".", "c", "s", "s">>

\* generate_html_report, lines 77-81: a <style> block for every *.css file of
\* the css folder, in the order os.listdir gives them
RECURSIVE css_styles(_)
css_styles(files) ==
    IF files = <<>> THEN <<>>
    ELSE (IF endswith_css(files[1].name) THEN << <<"style", files[1].text>> >> ELSE <<>>)
         \o css_styles(Tail(files))

\* generate_html_report: the document, or None when os.listdir raises because
\* there is no css folder beside the script (css_folder is then None)
generate_html_report(res, now, css_folder) ==
    IF css_folder = None THEN None
    ELSE Some(<< <<"html_header", "">> >> \o css_styles(css_folder[1])
              \o << <<"style", "builtin">>, <<"Generated on: ", now>> >>
              \o html_sections(res)
              \o << <<"/body", "">>, <<"/html", "">> >>)

----------------------------------------------------------------------------
(* The inputs: command lines, check documents, database answers, clock *)

\* The longest list of checks in a document
MaxChecks == 2

\* The most pieces a query template is cut into by its placeholders
MaxPieces == 3

\* The longest exclusion list
MaxExcl == 2

\* The longest enumerated host name
MaxHostLen == 4

SeqsUpTo(S, n) == UNION {[1..k -> S] : k \in 0..n}

\* Rows as the driver returns them: tuples of column values
Row1 == << <<"H", "R">>, <<"T", "R", "G", "1">> >>

Row2 == << <<"H", "R">>, <<"T", "R", "G", "2">> >>

\* What a query may return
ResultSets == { <<>>, <<Row1>>, <<Row1, Row2>>, <<Row2, Row1>> }

\* What may be beside the script as its css folder: nothing, an empty folder,
\* a folder with a style sheet and another file
CssFolders ==
    { None, Some(<<>>),
      Some(<< [name |-> <<"R", "E", "A", "D", "M", "E">>, text |-> "readme"],
              [name |-> <<"r", "e", "p", "o", "r", "t", ".", "c", "s", "s">>, text |-> "h2 {}"] >>) }

\* What datetime.datetime.now() may return
Clocks == { [year |-> 2024, month |-> 1, day |-> 31, hour |-> 9, minute |-> 5, second |-> 0],
            [year |-> 2025, month |-> 12, day |-> 1, hour |-> 23, minute |-> 59, second |-> 58] }

Check(name, query, description, warning_message) ==
    [name |-> name, query |-> query, description |-> description,
     warning_message |-> warning_message]

\* Check definitions of a document: two of them share a name, and the optional
\* keys are present or absent
CheckPool ==
    { Check("orphaned_triggers", <<"q", " ", "I", "N", " ", "(">> \o TOKEN \o <<")">>, Some("triggers"), Some("fix")),
      Check("orphaned_triggers", <<"q", "2">>, None, Some("fix2")),
      Check("dangling_links", <<"q", "3", " ">> \o TOKEN, Some("links"), None),
      Check("dangling_links", <<"q", "4">>, None, None) }

Document(validations, excl) ==
    [readable |-> TRUE, validations |-> validations, owner_exclude_list |-> excl]

\* A file that is missing or is not YAML
Unreadable == [readable |-> FALSE, validations |-> None, owner_exclude_list |-> None]

\* Documents that parse and lack one of the two keys
Malformed(excl) ==
    { Document(None, Some(excl)), Document(Some(<<>>), None), Document(None, None) }

CoreDocuments ==
    { Document(Some(v), Some(<< <<"S", "Y", "S">>, <<"S", "Y", "S", "T", "E", "M">> >>)) : v \in SeqsUpTo(CheckPool, MaxChecks) }
    \cup Malformed(<< <<"S", "Y", "S">> >>) \cup {Unreadable}

OneCheckDocuments ==
    { Document(Some(<<c>>), Some(<< <<"S", "Y", "S">> >>)) : c \in {ch \in CheckPool : ch.name = "dangling_links"} }
    \cup Malformed(<< <<"S", "Y", "S">> >>) \cup {Unreadable}

\* Text around the placeholders of a template; the third is a placeholder
\* that lacks its closing brace
Segments == { <<>>, <<"a", "}">>, <<"{", "o", "w", "n", "e", "r", "_", "e", "x", "c", "l", "u", "d", "e", "_", "l", "i", "s", "t">> }

Templates == { join(TOKEN, p) : p \in SeqsUpTo(Segments, MaxPieces) \ {<<>>} }

ExclNames == { <<"S", "Y", "S">>, <<"S", "Y", "S", "T", "E", "M">>, <<"O", "'", "R">> }

SubstDocuments ==
    { Document(Some(<<Check("orphaned_triggers", q, None, None)>>), Some(e)) :
        q \in Templates, e \in SeqsUpTo(ExclNames, MaxExcl) }

Args(tns, tns_path, host, port, service, format) ==
    [tns |-> tns, tns_path |-> tns_path, host |-> host, port |-> port,
     service |-> service, protocol |-> Some(<<"t", "c", "p">>), format |-> format]

DefaultPort == Some(<<"1", "5", "2", "1">>)

\* Command lines: an alias, a host, both, and incomplete ones
ArgPool ==
    { Args(Some(<<"O", "R", "C", "L", "_", "1">>), Some(<<"/", "t", "n", "s">>), None, DefaultPort, None, "text"),
      Args(Some(<<"O", "R", "C", "L", "_", "1">>), Some(<<"/", "t", "n", "s">>), Some(<<"1", "0", ".", "0", ".", "0", ".", "5">>), DefaultPort, Some(<<"s", "v", "c">>), "html"),
      Args(None, None, Some(<<"1", "0", ".", "0", ".", "0", ".", "5">>), DefaultPort, Some(<<"s", "v", "c">>), "html"),
      Args(None, None, Some(<<"p", "r", "o", "d", "-", "d", "b", "-", "0", "1">>), DefaultPort, Some(<<"s", "v", "c">>), "text"),
      Args(None, None, Some(<<"p", "r", "o", "d", "-", "d", "b", "-", "0", "1">>), DefaultPort, None, "text"),
      Args(None, None, None, DefaultPort, None, "html") }

HostTextArgs == Args(None, None, Some(<<"1", "0", ".", "0", ".", "0", ".", "5">>), DefaultPort, Some(<<"s", "v", "c">>), "text")

SmallArgPool ==
    { Args(Some(<<"O", "R", "C", "L", "_", "1">>), Some(<<"/", "t", "n", "s">>), None, DefaultPort, None, "html"),
      HostTextArgs,
      Args(None, None, None, DefaultPort, None, "text") }

\* A small and a capital letter, a digit, the dot, a hyphen, and a letter and
\* a digit from outside ASCII
HostChars == {"a", "Z", "7", ".", "-", "U+00E9", "U+00B2"}

\* Documents for the runs that range over hosts: one without checks
NoCheckDocuments == { Document(Some(<<>>), Some(<< <<"S", "Y", "S">> >>)) }

\* Host names of a command line.  "--" is left out: argparse does not hand it
\* over as the value of --host.
HostNames ==
    (SeqsUpTo(HostChars, MaxHostLen) \ { <<"-", "-">> })
    \cup { <<"1", "0", ".", "0", ".", "0", ".", "5">>, <<"p", "r", "o", "d", "-", "d", "b", "-", "0", "1">>,
           <<"m", "U+00FC", "n", "c", "h", "e", "n", "-", "1">>,
           <<"1", "0", ".", "0", ".", "0", ".", "U+00B2">>,
           <<"U+0661", "U+0660", ".", "U+0660", ".", "U+0660", ".", "U+0665">> }

HostArgs == { Args(None, None, Some(h), DefaultPort, Some(<<"s", "v", "c">>), "html") : h \in HostNames }

\* Command lines with an alias beside the host, or neither
AliasArgs ==
    { Args(t, None, h, DefaultPort, Some(<<"s", "v", "c">>), "text") :
        t \in {None, Some(<<"1", "0", ".", "0", ".", "0", ".", "5">>), Some(<<"t", "n", "s", "-", "1", ".", "A">>),
               Some(<<"U+00DC", "n", "U+00EF", "_", "9">>)},
        h \in {None, Some(<<"1", "0", ".", "0", ".", "0", ".", "5">>)} }

AllArgs ==
    { Args(t, tp, h, p, s, f) :
        t \in {None, Some(<<>>), Some(<<"O", "R", "C", "L", "_", "1">>)}, tp \in {None, Some(<<"/", "t", "n", "s">>)},
        h \in {None, Some(<<>>), Some(<<"p", "r", "o", "d", "-", "d", "b", "-", "0", "1">>)}, p \in {Some(<<>>), DefaultPort},
        s \in {None, Some(<<>>), Some(<<"s", "v", "c">>)}, f \in {"text", "html"} }

----------------------------------------------------------------------------
(* The program *)

NoError == [kind |-> "none", at |-> "none", k |-> 0]

\* The start of main, for a set of inputs: pairs of a command line and a
\* check document
InitWith(inputs) ==
    /\ pc = "main"
    /\ \E in \in inputs : args = in[1] /\ disk = in[2]
    /\ call = None
    /\ config = None
    /\ conn = "none"
    /\ cur = "none"
    /\ connects = 0
    /\ cursors = 0
    /\ checks = <<>>
    /\ owner_exclude_list = <<>>
    /\ i = 0
    /\ formatted_query = None
    /\ pending = None
    /\ rows = <<>>
    /\ results = <<>>
    /\ origin = <<>>
    /\ report = None
    /\ report_name = None
    /\ log = <<>>
    /\ stdout = <<>>
    /\ file = None
    /\ error = NoError

Init == InitWith(ArgPool \X CoreDocuments)

\* An exception nobody catches ends the process where it is raised
Raise(kind, at, k) ==
    /\ pc' = "crashed"
    /\ error' = [kind |-> kind, at |-> at, k |-> k]

\* main, line 290: resolve_password returns, or get_secret raises
ResolvePassword ==
    /\ pc = "main"
    /\ pc' = "select"
    /\ UNCHANGED <<args, disk, call, config, conn, cur, connects, cursors, checks,
                   owner_exclude_list, i, formatted_query, pending, rows, results,
                   origin, report, report_name, log, stdout, file, error>>

ResolvePasswordRaises ==
    /\ pc = "main"
    /\ Raise("ValueError", "resolve_password", 0)
    /\ UNCHANGED <<args, disk, call, config, conn, cur, connects, cursors, checks,
                   owner_exclude_list, i, formatted_query, pending, rows, results,
                   origin, report, report_name, log, stdout, file>>

\* main, lines 293-296: the alias is given
tns_call(a) ==
    [db_host |-> None, db_port |-> None, db_service |-> None, tns |-> a.tns,
     tns_path |-> a.tns_path, protocol |-> None, output_format |-> a.format]

\* main, lines 297-300: host, port and service are given
host_call(a) ==
    [db_host |-> a.host, db_port |-> a.port, db_service |-> a.service, tns |-> None,
     tns_path |-> None, protocol |-> a.protocol, output_format |-> a.format]

\* A test that is content with the host or the service alone
host_complete_any(a) == Truthy(a.host) \/ Truthy(a.service)

\* main, line 297: args.host and args.port and args.service

host_complete(a) == Truthy(a.host) /\ Truthy(a.port) /\ Truthy(a.service)

MainTns ==
    /\ pc = "select"
    /\ Truthy(args.tns)
    /\ call' = Some(tns_call(args))
    /\ pc' = "load_config"
    /\ UNCHANGED <<args, disk, config, conn, cur, connects, cursors, checks,
                   owner_exclude_list, i, formatted_query, pending, rows, results,
                   origin, report, report_name, log, stdout, file, error>>

MainHost ==
    /\ pc = "select"
    /\ ~Truthy(args.tns)
    /\ host_complete(args)
    /\ call' = Some(host_call(args))
    /\ pc' = "load_config"
    /\ UNCHANGED <<args, disk, config, conn, cur, connects, cursors, checks,
                   owner_exclude_list, i, formatted_query, pending, rows, results,
                   origin, report, report_name, log, stdout, file, error>>

\* main, lines 301-302
MainUsage ==
    /\ pc = "select"
    /\ ~Truthy(args.tns)
    /\ ~host_complete(args)
    /\ stdout' = Append(stdout, <<"Error: Please provide either --tns OR --host, --port, and --service.", "">>)
    /\ pc' = "exit"
    /\ UNCHANGED <<args, disk, call, config, conn, cur, connects, cursors, checks,
                   owner_exclude_list, i, formatted_query, pending, rows, results,
                   origin, report, report_name, log, file, error>>

\* validate_database, line 213, and load_config
LoadConfig ==
    /\ pc = "load_config"
    /\ disk.readable
    /\ config' = Some([validations |-> disk.validations,
                       owner_exclude_list |-> disk.owner_exclude_list])
    /\ pc' = "connect"
    /\ UNCHANGED <<args, disk, call, conn, cur, connects, cursors, checks,
                   owner_exclude_list, i, formatted_query, pending, rows, results,
                   origin, report, report_name, log, stdout, file, error>>

LoadConfigRaises ==
    /\ pc = "load_config"
    /\ ~disk.readable
    /\ Raise("OSError or YAMLError", "load_config", 0)
    /\ UNCHANGED <<args, disk, call, config, conn, cur, connects, cursors, checks,
                   owner_exclude_list, i, formatted_query, pending, rows, results,
                   origin, report, report_name, log, stdout, file>>

\* validate_database, lines 220-239: oracledb.connect returns a connection
Connect ==
    /\ pc = "connect"
    /\ conn' = "open"
    /\ connects' = connects + 1
    /\ pc' = "cursor"
    /\ UNCHANGED <<args, disk, call, config, cur, cursors, checks,
                   owner_exclude_list, i, formatted_query, pending, rows, results,
                   origin, report, report_name, log, stdout, file, error>>

ConnectRaises ==
    /\ pc = "connect"
    /\ Raise("DatabaseError", "connect", 0)
    /\ UNCHANGED <<args, disk, call, config, conn, cur, connects, cursors, checks,
                   owner_exclude_list, i, formatted_query, pending, rows, results,
                   origin, report, report_name, log, stdout, file>>

\* validate_database, line 242
Cursor ==
    /\ pc = "cursor"
    /\ cur' = "open"
    /\ cursors' = cursors + 1
    /\ pc' = "call_run_checks"
    /\ UNCHANGED <<args, disk, call, config, conn, connects, checks,
                   owner_exclude_list, i, formatted_query, pending, rows, results,
                   origin, report, report_name, log, stdout, file, error>>

\* validate_database, line 245: config['validations'] and
\* config['owner_exclude_list'] are looked up, then run_checks starts (line 38)
CallRunChecks ==
    /\ pc = "call_run_checks"
    /\ config[1].validations # None
    /\ config[1].owner_exclude_list # None
    /\ checks' = config[1].validations[1]
    /\ owner_exclude_list' = config[1].owner_exclude_list[1]
    /\ results' = <<>>
    /\ origin' = <<>>
    /\ i' = 0
    /\ pc' = "for"
    /\ UNCHANGED <<args, disk, call, config, conn, cur, connects, cursors,
                   formatted_query, pending, rows,
                   report, report_name, log, stdout, file, error>>

ConfigKeyError ==
    /\ pc = "call_run_checks"
    /\ config[1].validations = None \/ config[1].owner_exclude_list = None
    /\ Raise("KeyError", "config", 0)
    /\ UNCHANGED <<args, disk, call, config, conn, cur, connects, cursors, checks,
                   owner_exclude_list, i, formatted_query, pending, rows, results,
                   origin, report, report_name, log, stdout, file>>

\* run_checks, lines 39-41: the next check, its banner and its query
ForNext ==
    /\ pc = "for"
    /\ i < Len(checks)
    /\ stdout' = Append(stdout, <<"Running check: ", checks[i + 1].name>>)
    /\ formatted_query' = Some(format_query(checks[i + 1].query, owner_exclude_list))
    /\ pc' = "execute"
    /\ UNCHANGED <<args, disk, call, config, conn, cur, connects, cursors, checks,
                   owner_exclude_list, i, pending, rows, results,
                   origin, report, report_name, log, file, error>>

\* A return indented into the loop body
ReturnInsideLoop ==
    /\ pc = "for"
    /\ i = Len(checks) \/ i >= 1
    /\ report' = Some(results)
    /\ pc' = "name"
    /\ UNCHANGED <<args, disk, call, config, conn, cur, connects, cursors, checks,
                   owner_exclude_list, i, formatted_query, pending, rows, results,
                   origin, report_name, log, stdout, file, error>>

\* run_checks, line 54, and the assignment of line 245
Return ==
    /\ pc = "for"
    /\ i = Len(checks)
    /\ report' = Some(results)
    /\ pc' = "name"
    /\ UNCHANGED <<args, disk, call, config, conn, cur, connects, cursors, checks,
                   owner_exclude_list, i, formatted_query, pending, rows, results,
                   origin, report_name, log, stdout, file, error>>

\* One call on the cursor, as the history keeps it: which check it served, the
\* statement, which cursor, and what it returned
Called(op, returned) ==
    [op |-> op, k |-> i + 1, query |-> formatted_query[1], cursor |-> cursors,
     returned |-> returned]

\* run_checks, line 43: the database answers the statement with a result set
Execute ==
    /\ pc = "execute"
    /\ \E rs \in ResultSets : pending' = Some(rs)
    /\ log' = Append(log, Called("execute", None))
    /\ pc' = "fetch"
    /\ UNCHANGED <<args, disk, call, config, conn, cur, connects, cursors, checks,
                   owner_exclude_list, i, formatted_query, rows, results,
                   origin, report, report_name, stdout, file, error>>

\* A handler around the statement that notes the error and goes on
ExecuteCaught ==
    /\ pc = "execute"
    /\ log' = Append(log, Called("execute", None))
    /\ error' = [kind |-> "DatabaseError", at |-> "execute", k |-> i + 1]
    /\ pending' = Some(<<>>)
    /\ pc' = "fetch"
    /\ UNCHANGED <<args, disk, call, config, conn, cur, connects, cursors, checks,
                   owner_exclude_list, i, formatted_query, rows, results,
                   origin, report, report_name, stdout, file>>

\* run_checks, line 43: the statement fails and nothing catches the error
ExecuteRaises ==
    /\ pc = "execute"
    /\ log' = Append(log, Called("execute", None))
    /\ Raise("DatabaseError", "execute", i + 1)
    /\ UNCHANGED <<args, disk, call, config, conn, cur, connects, cursors, checks,
                   owner_exclude_list, i, formatted_query, pending, rows, results,
                   origin, report, report_name, stdout, file>>

\* run_checks, line 44: fetchall hands over the whole result set
Fetch ==
    /\ pc = "fetch"
    /\ rows' = pending[1]
    /\ pending' = None
    /\ log' = Append(log, Called("fetchall", pending))
    /\ pc' = "store"
    /\ UNCHANGED <<args, disk, call, config, conn, cur, connects, cursors, checks,
                   owner_exclude_list, i, formatted_query, results,
                   origin, report, report_name, stdout, file, error>>

FetchRaises ==
    /\ pc = "fetch"
    /\ log' = Append(log, Called("fetchall", None))
    /\ Raise("DatabaseError", "fetchall", i + 1)
    /\ UNCHANGED <<args, disk, call, config, conn, cur, connects, cursors, checks,
                   owner_exclude_list, i, formatted_query, pending, rows, results,
                   origin, report, report_name, stdout, file>>

\* check.get(key, ''): the value of the key, '' when the key is absent
get(opt) == IF opt = None THEN "" ELSE opt[1]

\* An entry with description and warning exchanged
make_result_swapped(check, fetched) ==
    [name |-> check.name, description |-> get(check.warning_message),
     warning |-> get(check.description), rows |-> fetched]

\* run_checks, lines 48-53: the entry made for a check
make_result(check, fetched) ==
    [name |-> check.name, description |-> get(check.description),
     warning |-> get(check.warning_message), rows |-> fetched]

\* An insertion at the front of the list
prepend(list, entry) == <<entry>> \o list

\* results.append(entry)
append(list, entry) == Append(list, entry)

\* A runner that reports empty result sets too
keep_always(fetched) == TRUE

\* run_checks, line 47: if rows
keep(fetched) == fetched # <<>>

\* run_checks, lines 47-53
StoreResult ==
    /\ pc = "store"
    /\ keep(rows)
    /\ results' = append(results, make_result(checks[i + 1], rows))
    /\ origin' = append(origin, i + 1)
    /\ i' = i + 1
    /\ pc' = "for"
    /\ UNCHANGED <<args, disk, call, config, conn, cur, connects, cursors, checks,
                   owner_exclude_list, formatted_query, pending, rows,
                   report, report_name, log, stdout, file, error>>

DropEmpty ==
    /\ pc = "store"
    /\ ~keep(rows)
    /\ i' = i + 1
    /\ pc' = "for"
    /\ UNCHANGED <<args, disk, call, config, conn, cur, connects, cursors, checks,
                   owner_exclude_list, formatted_query, pending, rows, results,
                   origin, report, report_name, log, stdout, file, error>>

\* validate_database, lines 247-260
ReportName ==
    /\ pc = "name"
    /\ \E now \in Clocks :
         report_name' = Some(make_report_name(db_host_alpha(call[1].tns, call[1].db_host),
                                              strftime(now)))
    /\ pc' = "render"
    /\ UNCHANGED <<args, disk, call, config, conn, cur, connects, cursors, checks,
                   owner_exclude_list, i, formatted_query, pending, rows, results,
                   origin, report, log, stdout, file, error>>

\* validate_database, lines 262-263
RenderText ==
    /\ pc = "render"
    /\ call[1].output_format = "text"
    /\ stdout' = stdout \o format_results(report[1])
    /\ pc' = "close"
    /\ UNCHANGED <<args, disk, call, config, conn, cur, connects, cursors, checks,
                   owner_exclude_list, i, formatted_query, pending, rows, results,
                   origin, report, report_name, log, file, error>>

\* validate_database, lines 264-268
RenderHtml ==
    /\ pc = "render"
    /\ call[1].output_format = "html"
    /\ \E now \in Clocks, css_folder \in CssFolders :
         LET html_report == generate_html_report(report[1], now, css_folder)
         IN  /\ html_report # None
             /\ file' = Some([name |-> report_name[1], content |-> html_report[1]])
    /\ stdout' = Append(stdout, <<"HTML report generated: ", report_name[1]>>)
    /\ pc' = "close"
    /\ UNCHANGED <<args, disk, call, config, conn, cur, connects, cursors, checks,
                   owner_exclude_list, i, formatted_query, pending, rows, results,
                   origin, report, report_name, log, error>>

\* validate_database, line 265: generate_html_report raises at line 78, there
\* being no css folder
RenderHtmlNoCss ==
    /\ pc = "render"
    /\ call[1].output_format = "html"
    /\ \E now \in Clocks, css_folder \in CssFolders :
         generate_html_report(report[1], now, css_folder) = None
    /\ Raise("FileNotFoundError", "listdir", 0)
    /\ UNCHANGED <<args, disk, call, config, conn, cur, connects, cursors, checks,
                   owner_exclude_list, i, formatted_query, pending, rows, results,
                   origin, report, report_name, log, stdout, file>>

\* validate_database, line 266: the report file cannot be opened for writing
RenderHtmlRaises ==
    /\ pc = "render"
    /\ call[1].output_format = "html"
    /\ \E now \in Clocks, css_folder \in CssFolders :
         generate_html_report(report[1], now, css_folder) # None
    /\ Raise("OSError", "open", 0)
    /\ UNCHANGED <<args, disk, call, config, conn, cur, connects, cursors, checks,
                   owner_exclude_list, i, formatted_query, pending, rows, results,
                   origin, report, report_name, log, stdout, file>>

\* validate_database, lines 271-272, then main returns
Close ==
    /\ pc = "close"
    /\ cur' = "closed"
    /\ conn' = "closed"
    /\ pc' = "exit"
    /\ UNCHANGED <<args, disk, call, config, connects, cursors, checks,
                   owner_exclude_list, i, formatted_query, pending, rows, results,
                   origin, report, report_name, log, stdout, file, error>>

Next ==
    \/ ResolvePassword \/ ResolvePasswordRaises
    \/ MainTns \/ MainHost \/ MainUsage
    \/ LoadConfig \/ LoadConfigRaises
    \/ Connect \/ ConnectRaises
    \/ Cursor
    \/ CallRunChecks \/ ConfigKeyError
    \/ ForNext \/ Return
    \/ Execute \/ ExecuteRaises
    \/ Fetch \/ FetchRaises
    \/ StoreResult \/ DropEmpty
    \/ ReportName
    \/ RenderText \/ RenderHtml \/ RenderHtmlNoCss \/ RenderHtmlRaises
    \/ Close

\* The program on a range of check documents and database answers
Spec == Init /\ [][Next]_vars

InitSubst ==
    InitWith((SmallArgPool \X OneCheckDocuments) \cup ({HostTextArgs} \X SubstDocuments))

\* The program on one-check documents whose query and exclusion list vary
SpecSubst == InitSubst /\ [][Next]_vars

InitHost ==
    InitWith((HostArgs \X NoCheckDocuments) \cup (AliasArgs \X OneCheckDocuments))

\* The program on a range of host names
SpecHost == InitHost /\ [][Next]_vars

InitArgs == InitWith(AllArgs \X OneCheckDocuments)

\* The program on every combination of connection arguments
SpecArgs == InitArgs /\ [][Next]_vars

----------------------------------------------------------------------------
(* Properties of the check runner *)

\* The result set fetchall returned for the check at position k
FetchedFor(k) ==
    LET e == CHOOSE e \in {log[j] : j \in 1..Len(log)} : e.op = "fetchall" /\ e.k = k
    IN  e.returned[1]

WasFetched(k) ==
    \E j \in 1..Len(log) : log[j].op = "fetchall" /\ log[j].k = k /\ log[j].returned # None

\* C1: the Report run_checks returns has an entry for a check if and only if
\* the check's query returned at least one row: every entry has rows, no
\* check with zero rows has an entry, and the Report is no longer than the
\* list of definitions.
ReportHasExactlyTheNonEmptyChecks ==
    report # None =>
        /\ Len(report[1]) <= Len(checks)
        /\ Len(origin) = Len(report[1])
        /\ \A j \in 1..Len(report[1]) : Len(report[1][j].rows) > 0
        /\ \A k \in 1..Len(checks) :
             /\ WasFetched(k)
             /\ (\E j \in 1..Len(origin) : origin[j] = k) <=> (Len(FetchedFor(k)) > 0)

\* A returned Report that kept one of two checks and dropped the other
C1_Witness ==
    /\ report # None
    /\ Len(checks) = 2
    /\ Len(report[1]) = 1
    /\ \E k \in 1..2 : FetchedFor(k) = <<>>

\* C2: the Report is a subsequence of the definitions: the entries' source
\* positions are strictly increasing, so no two entries come from the same
\* position and none is reordered, and entries of equally named definitions
\* are all kept.
ReportPreservesDefinitionOrder ==
    report # None =>
        /\ Len(origin) = Len(report[1])
        /\ \A j \in 1..Len(origin) :
             /\ origin[j] \in 1..Len(checks)
             /\ report[1][j].name = checks[origin[j]].name
             /\ report[1][j].rows = FetchedFor(origin[j])
        /\ \A j1, j2 \in 1..Len(origin) : j1 < j2 => origin[j1] < origin[j2]

\* A returned Report with two entries of the same name and different rows
C2_Witness ==
    /\ report # None
    /\ Len(report[1]) = 2
    /\ report[1][1].name = report[1][2].name
    /\ report[1][1].rows # report[1][2].rows
    /\ checks[1] # checks[2]

\* Lines of the text renderer on standard output
TextRendered == \E j \in 1..Len(stdout) : stdout[j][1] \in {"Check: ", "Result:"}

\* C3: when the execute or the fetch of check k raises, the run ends there: no
\* call for a later check is made, run_checks returns no Report, no renderer
\* runs, no report file is written, and the program takes no further step.
ErrorAbortsTheRun ==
    error.at \in {"execute", "fetchall"} =>
        /\ pc = "crashed"
        /\ ~ENABLED Next
        /\ i = error.k - 1
        /\ Len(log) > 0
        /\ log[Len(log)].op = error.at
        /\ \A j \in 1..Len(log) : log[j].k <= error.k
        /\ report = None
        /\ report_name = None
        /\ ~TextRendered
        /\ file = None

\* The second check fails after the first has completed with rows
C3_Witness ==
    /\ pc = "crashed"
    /\ error.at = "execute"
    /\ error.k = 2
    /\ Len(results) = 1
    /\ Len(checks) = 2

\* C4: once the connection has been opened, the run ends only with the
\* connection and the cursor closed, also when it ends with an error.
ConnectionClosedOnEveryExit ==
    (pc \in {"exit", "crashed"} /\ connects > 0) => (conn = "closed" /\ cur = "closed")

\* C9: one connection and one cursor per run; the calls on the cursor are
\* execute and fetchall of check 1, then of check 2, and so on, each check
\* once and in definition order, and a run that returns a Report has made
\* them for every definition.
ChecksRunSequentiallyOnOneCursor ==
    /\ connects <= 1
    /\ cursors <= 1
    /\ \A j \in 1..Len(log) :
         /\ log[j].op = (IF j % 2 = 1 THEN "execute" ELSE "fetchall")
         /\ log[j].k = (j + 1) \div 2
         /\ log[j].cursor = 1
         /\ log[j].query = format_query(checks[log[j].k].query, owner_exclude_list)
    /\ Len(log) > 0 => connects = 1 /\ cursors = 1
    /\ report # None => Len(log) = 2 * Len(checks)
    /\ pc = "exit" /\ call # None => report # None /\ conn = "closed" /\ cur = "closed"

\* A finished run of two checks
C9_Witness ==
    /\ pc = "exit"
    /\ Len(checks) = 2
    /\ Len(log) = 4
    /\ connects = 1

\* C10: every entry carries its own definition's name, its description and
\* warning_message ('' for a key the definition lacks), and exactly the rows
\* fetched for its own query, in the order fetched.
EntriesCarryTheirDefinition ==
    /\ Len(origin) = Len(results)
    /\ \A j \in 1..Len(results) :
         LET c == checks[origin[j]]
             e == results[j]
         IN  /\ e.name = c.name
             /\ e.description = (IF c.description = None THEN "" ELSE c.description[1])
             /\ e.warning = (IF c.warning_message = None THEN "" ELSE c.warning_message[1])
             /\ e.rows = FetchedFor(origin[j])
             /\ DOMAIN e = {"name", "description", "warning", "rows"}
    /\ report # None => report[1] = results

\* A Report of two entries made from different definitions with different
\* rows, one lacking its description and the other its warning
C10_Witness ==
    /\ report # None
    /\ Len(report[1]) = 2
    /\ report[1][1].rows = <<Row2, Row1>>
    /\ report[1][2].rows = <<Row1>>
    /\ report[1][1].description = ""
    /\ report[1][1].warning # ""
    /\ report[1][2].warning = ""
    /\ report[1][2].description # ""

----------------------------------------------------------------------------
(* Properties of the substitution, the file name and the command line *)

\* Where the placeholder occurs in a template
Occurrences(s) ==
    {p \in 1..(Len(s) - Len(TOKEN) + 1) : SubSeq(s, p, p + Len(TOKEN) - 1) = TOKEN}

Greatest(S) == CHOOSE p \in S : \A q \in S : q <= p

\* The template with every placeholder replaced by text, last placeholder first
RECURSIVE Substituted(_, _)
Substituted(s, text) ==
    IF Occurrences(s) = {} THEN s
    ELSE LET p == Greatest(Occurrences(s))
         IN  Substituted(SubSeq(s, 1, p - 1), text) \o text
             \o SubSeq(s, p + Len(TOKEN), Len(s))

\* The entries in list order, each between single quotes, separated by ', '
RECURSIVE QuotedList(_)
QuotedList(excl) ==
    IF excl = <<>> THEN <<>>
    ELSE (IF Len(excl) = 1 THEN <<>>
          ELSE QuotedList(SubSeq(excl, 1, Len(excl) - 1)) \o <<",", " ">>)
         \o <<"'">> \o excl[Len(excl)] \o <<"'">>

\* C5: the statement sent to the cursor is the template with each placeholder
\* replaced by the exclusion entries, each in single quotes, joined by ', ' in
\* list order and not escaped; ['SYS', 'SYSTEM'] gives 'SYS', 'SYSTEM', an
\* empty list gives the empty string, and a template without the placeholder
\* is sent as it is.
SubstitutionIsTextual ==
    \A j \in 1..Len(log) :
        LET template == checks[log[j].k].query
            sent == log[j].query
        IN  /\ sent = Substituted(template, QuotedList(owner_exclude_list))
            /\ owner_exclude_list = << <<"S", "Y", "S">>, <<"S", "Y", "S", "T", "E", "M">> >>
                 => sent = Substituted(template, <<"'", "S", "Y", "S", "'", ",", " ", "'", "S", "Y", "S", "T", "E", "M", "'">>)
            /\ owner_exclude_list = << <<"O", "'", "R">> >>
                 => sent = Substituted(template, <<"'", "O", "'", "R", "'">>)
            /\ owner_exclude_list = <<>> => sent = Substituted(template, <<>>)
            /\ Occurrences(template) = {} => sent = template
            /\ Len(sent) = Len(template) + Cardinality(Occurrences(template))
                              * (Len(QuotedList(owner_exclude_list)) - Len(TOKEN))

\* A template with two placeholders sent with the list ['SYS', 'SYSTEM']
C5_Witness ==
    /\ Len(log) > 0
    /\ owner_exclude_list = << <<"S", "Y", "S">>, <<"S", "Y", "S", "T", "E", "M">> >>
    /\ checks[1].query = <<"a", "}">> \o TOKEN \o <<"{", "o", "w", "n", "e", "r", "_", "e", "x", "c", "l", "u", "d", "e", "_", "l", "i", "s", "t">> \o TOKEN
    /\ log[1].query = <<"a", "}", "'", "S", "Y", "S", "'", ",", " ", "'", "S", "Y", "S", "T", "E", "M", "'", "{", "o", "w", "n", "e", "r", "_", "e", "x", "c", "l", "u", "d", "e", "_", "l", "i", "s", "t", "'", "S", "Y", "S", "'", ",", " ", "'", "S", "Y", "S", "T", "E", "M", "'">>

\* The Latin letters, small and capital
SmallLetters == <<"a", "b", "c", "d", "e", "f", "g", "h", "i", "j", "k", "l", "m", "n", "o", "p", "q", "r", "s", "t", "u", "v", "w", "x", "y", "z">>

CapitalLetters == <<"A", "B", "C", "D", "E", "F", "G", "H", "I", "J", "K", "L", "M", "N", "O", "P", "Q", "R", "S", "T", "U", "V", "W", "X", "Y", "Z">>

\* The alphabetic characters: the Latin letters and the letters of other
\* alphabets among the characters of the hosts
Letters ==
    {SmallLetters[k] : k \in 1..26} \cup {CapitalLetters[k] : k \in 1..26}
    \cup {"U+00E9", "U+00FC"}

\* The digits: 0 to 9 and the digits of other scripts among the characters of
\* the hosts
Digits ==
    {"0", "1", "2", "3", "4", "5", "6", "7", "8", "9"}
    \cup {"U+00B2", "U+0660", "U+0661", "U+0665"}

\* The token the file name carries for a host
ExpectedToken(h) ==
    IF \A k \in 1..Len(h) : h[k] \in Digits \cup {"."}
    THEN <<"i", "p", "_">> \o [k \in 1..Len(h) |-> IF h[k] = "." THEN "_" ELSE h[k]]
    ELSE SelectSeq(h, LAMBDA c : c \in Letters)

\* The two clock readings as %Y%m%d_%H%M%S prints them
ExpectedStamps == { <<"2", "0", "2", "4", "0", "1", "3", "1", "_", "0", "9", "0", "5", "0", "0">>, <<"2", "0", "2", "5", "1", "2", "0", "1", "_", "2", "3", "5", "9", "5", "8">> }

\* C6: for a run by host, the report file name is dms_comp_<token>_<stamp>.html
\* where the token is ip_ and the host with '_' for '.' when the host has only
\* digits and dots, and the host's letters otherwise; 10.0.0.5 gives
\* ip_10_0_0_5 and prod-db-01 gives proddb.
HostTokenInReportName ==
    (report_name # None /\ call[1].tns = None) =>
        LET h == call[1].db_host[1]
        IN  /\ \E ts \in ExpectedStamps :
                 report_name[1] = <<"d", "m", "s", "_", "c", "o", "m", "p", "_">> \o ExpectedToken(h) \o <<"_">> \o ts \o <<".", "h", "t", "m", "l">>
            /\ h = <<"1", "0", ".", "0", ".", "0", ".", "5">> => SubSeq(report_name[1], 10, 20) = <<"i", "p", "_", "1", "0", "_", "0", "_", "0", "_", "5">>
            /\ h = <<"p", "r", "o", "d", "-", "d", "b", "-", "0", "1">> => SubSeq(report_name[1], 10, 15) = <<"p", "r", "o", "d", "d", "b">>
            /\ file # None => file[1].name = report_name[1]

\* The report name of a host of digits, one of them a superscript, and a dot
C6_WitnessDigits ==
    /\ report_name # None
    /\ call[1].tns = None
    /\ call[1].db_host = Some(<<"7", ".", "U+00B2">>)
    /\ SubSeq(report_name[1], 10, 16) = <<"i", "p", "_", "7", "_", "U+00B2", "_">>

\* The report file written for the host 10.0.0.5
C6_Witness ==
    /\ file # None
    /\ call[1].db_host = Some(<<"1", "0", ".", "0", ".", "0", ".", "5">>)
    /\ call[1].tns = None
    /\ file[1].name = <<"d", "m", "s", "_", "c", "o", "m", "p", "_", "i", "p", "_", "1", "0", "_", "0", "_", "0", "_", "5", "_", "2", "0", "2", "4", "0", "1", "3", "1", "_", "0", "9", "0", "5", "0", "0", ".", "h", "t", "m", "l">>

\* The report name of a host with letters, one of them outside ASCII, a digit
\* and a hyphen
C6_WitnessName ==
    /\ report_name # None
    /\ call[1].tns = None
    /\ call[1].db_host = Some(<<"U+00E9", "-", "7", "Z">>)
    /\ SubSeq(report_name[1], 10, 12) = <<"U+00E9", "Z", "_">>

\* C7: with a check document that cannot be read, or that lacks the list of
\* checks or the exclusion list, no connection is opened and no check runs.
NoConnectionOnBadDocument ==
    (~disk.readable \/ disk.validations = None \/ disk.owner_exclude_list = None) =>
        (connects = 0 /\ conn = "none" /\ log = <<>>)

UsageLine == <<"Error: Please provide either --tns OR --host, --port, and --service.", "">>

\* C8: validate_database is called with the alias and its path and no host,
\* port, service or protocol, or with host, port, service and protocol and no
\* alias or path; with neither an alias nor a complete host, port and service
\* it is not called, nothing is loaded, connected or executed, and the run
\* ends with the error message printed (or in resolve_password's error).
ConnectionModeIsExclusive ==
    /\ call # None =>
         LET c == call[1]
         IN  \/ /\ Truthy(c.tns) /\ c.tns = args.tns /\ c.tns_path = args.tns_path
                /\ c.db_host = None /\ c.db_port = None /\ c.db_service = None
                /\ c.protocol = None
             \/ /\ c.tns = None /\ c.tns_path = None /\ ~Truthy(args.tns)
                /\ Truthy(c.db_host) /\ Truthy(c.db_port) /\ Truthy(c.db_service)
                /\ c.db_host = args.host /\ c.db_port = args.port
                /\ c.db_service = args.service /\ c.protocol = args.protocol
    /\ (~Truthy(args.tns) /\ ~(Truthy(args.host) /\ Truthy(args.port) /\ Truthy(args.service))) =>
         /\ call = None /\ config = None /\ connects = 0 /\ log = <<>>
         /\ pc \in {"main", "select", "exit", "crashed"}
         /\ pc = "exit" => stdout = <<UsageLine>>
         /\ pc = "crashed" => error.at = "resolve_password"
    /\ (pc \notin {"main", "select"} /\ error.at # "resolve_password") =>
         (call = None <=> stdout = <<UsageLine>>)

\* A run by host while an empty alias was given, past the connection
C8_Witness ==
    /\ call # None
    /\ args.tns = Some(<<>>)
    /\ call[1].tns = None
    /\ connects = 1

\* The error message for a host without a service
C8_WitnessUsage ==
    /\ pc = "exit"
    /\ Truthy(args.host)
    /\ ~Truthy(args.service)
    /\ stdout = <<UsageLine>>

====
